---- MODULE Spec2Model ----
(***************************************************************************)
(* Smart Voice Translator (app.py): the two Flask routes process_audio and  *)
(* get_audio, the two fixed files they share (record_videos/record.wav and  *)
(* speaking_video/output.mp3) and the three engines they call (Whisper,     *)
(* GoogleTranslator, edge-tts).  Requests are served by the threads of      *)
(* Flask's threaded server, so the steps of different requests interleave   *)
(* at every file or engine call.                                           *)
(*                                                                         *)
(* Text is a sequence of one-character strings, so that join and strip are *)
(* computed.  The confidence score, the index page and the OPTIONS         *)
(* pre-flights (204, no state touched) are not modelled.                   *)
(***************************************************************************)
EXTENDS Integers, Sequences, FiniteSets, TLC

(***************************************************************************)
(* Bounds                                                                  *)
(***************************************************************************)
\* number of requests accepted in one behaviour
MaxRequests == 2

\* the server threads that serve requests at the same time
Threads == {"t1", "t2"}

(***************************************************************************)
(* Language catalog                                                        *)
(***************************************************************************)
LANGUAGE_NAMES ==
    [en |-> "English", hi |-> "Hindi", te |-> "Telugu", ta |-> "Tamil",
     kn |-> "Kannada", ml |-> "Malayalam", mr |-> "Marathi", bn |-> "Bengali",
     gu |-> "Gujarati", pa |-> "Punjabi", ur |-> "Urdu", or |-> "Odia",
     as |-> "Assamese", ja |-> "Japanese", zh |-> "Chinese", ko |-> "Korean",
     fr |-> "French", de |-> "German", es |-> "Spanish", it |-> "Italian",
     pt |-> "Portuguese", ru |-> "Russian", ar |-> "Arabic", tr |-> "Turkish",
     nl |-> "Dutch", pl |-> "Polish", sv |-> "Swedish", fi |-> "Finnish",
     id |-> "Indonesian", vi |-> "Vietnamese", th |-> "Thai"]

VOICE_MAP ==
    [en |-> "en-US-AriaNeural", hi |-> "hi-IN-SwaraNeural",
     te |-> "te-IN-ShrutiNeural", ta |-> "ta-IN-PallaviNeural",
     kn |-> "kn-IN-SapnaNeural", ml |-> "ml-IN-SobhanaNeural",
     mr |-> "mr-IN-AarohiNeural", bn |-> "bn-IN-TanishaaNeural",
     gu |-> "gu-IN-DhwaniNeural", pa |-> "pa-IN-OjasNeural",
     ur |-> "ur-PK-UzmaNeural", or |-> "or-IN-SubhasiniNeural",
     as |-> "as-IN-YashicaNeural", ja |-> "ja-JP-NanamiNeural",
     zh |-> "zh-CN-XiaoxiaoNeural", ko |-> "ko-KR-SunHiNeural",
     fr |-> "fr-FR-DeniseNeural", de |-> "de-DE-KatjaNeural",
     es |-> "es-ES-ElviraNeural", it |-> "it-IT-ElsaNeural",
     pt |-> "pt-BR-FranciscaNeural", ru |-> "ru-RU-SvetlanaNeural",
     ar |-> "ar-EG-SalmaNeural", tr |-> "tr-TR-EmelNeural",
     nl |-> "nl-NL-ColetteNeural", pl |-> "pl-PL-AgnieszkaNeural",
     sv |-> "sv-SE-SofieNeural", fi |-> "fi-FI-NooraNeural",
     id |-> "id-ID-GadisNeural", vi |-> "vi-VN-HoaiMyNeural",
     th |-> "th-TH-PremwadeeNeural"]

DefaultVoice == "en-US-AriaNeural"

\* str.upper() on the language codes the model uses
Upper(code) ==
    CASE code = "en" -> "EN"
      [] code = "hi" -> "HI"
      [] code = "uk" -> "UK"
      [] OTHER -> code

\* a lookup that falls back to the code as it is
LanguageName_NoUpper(code) ==
    IF code \in DOMAIN LANGUAGE_NAMES THEN LANGUAGE_NAMES[code] ELSE code

\* LANGUAGE_NAMES.get(code, code.upper())
LanguageName(code) ==
    IF code \in DOMAIN LANGUAGE_NAMES THEN LANGUAGE_NAMES[code] ELSE Upper(code)

\* VOICE_MAP.get(target_lang, "en-US-AriaNeural")
SelectedVoice(code) ==
    IF code \in DOMAIN VOICE_MAP THEN VOICE_MAP[code] ELSE DefaultVoice

(***************************************************************************)
(* Text                                                                    *)
(***************************************************************************)
IsSpace(c) == c = " "

RECURSIVE LStrip(_)
LStrip(s) ==
    IF s = <<>> THEN <<>>
    ELSE IF IsSpace(Head(s)) THEN LStrip(Tail(s)) ELSE s

RECURSIVE RStrip(_)
RStrip(s) ==
    IF s = <<>> THEN <<>>
    ELSE IF IsSpace(s[Len(s)]) THEN RStrip(SubSeq(s, 1, Len(s) - 1)) ELSE s

\* str.strip()
Strip(s) == RStrip(LStrip(s))

\* " ".join(segment.text for segment in segments)
RECURSIVE Join(_)
Join(segs) ==
    IF segs = <<>> THEN <<>>
    ELSE IF Len(segs) = 1 THEN Head(segs)
    ELSE Head(segs) \o <<" ">> \o Join(Tail(segs))

(***************************************************************************)
(* Inputs and engine outcomes                                              *)
(***************************************************************************)
\* What Whisper returns for each recording a client can upload: the
\* segments' texts and info.language.
Recordings ==
    { [segments |-> << <<" ">>, <<" ", " ">> >>, language |-> "uk"],
      [segments |-> << <<" ", "h", "i">>, <<" ", "y", "o">> >>, language |-> "en"],
      [segments |-> << <<" ", "t", "a", "k", " ">> >>, language |-> "uk"] }

NoRecording == [segments |-> << >>, language |-> ""]

\* the target_lang form field; "" stands for an absent field
TargetFields == {"", "hi", "uk"}

\* the requests a client can post to /process_audio
PaRequests ==
    [has_audio : {TRUE}, audio : Recordings, target_field : TargetFields]
    \cup [has_audio : {FALSE}, audio : {NoRecording}, target_field : {""}]

\* the check of line 109 left out
AudioMissing_Never(req) == FALSE

\* line 109: "audio" not in request.files
AudioMissing(req) == ~req.has_audio

\* request.form.get("target_lang", "en")
FormTarget(field) == IF field = "" THEN "en" ELSE field

\* texts the translation engine can return
TranslatedTexts == { << >>, <<"o", "k">> }

\* ways a translation call can fail
TranslateErrors == {"LanguageNotSupported", "RequestError"}

\* speech_to_text(audio_path) applied to the stored recording
SpeechToText(rec) ==
    [text |-> Strip(Join(rec.segments)), detected_lang |-> rec.language]

\* the check of line 122 left out
NoSpeech_Never(text) == FALSE

\* line 122: not text
NoSpeech(text) == text = << >>

\* the shortcut of line 129 left out
SkipTranslation_Never(detected_lang, target_lang) == FALSE

\* line 129: detected_lang == target_lang
SkipTranslation(detected_lang, target_lang) == detected_lang = target_lang

\* the second call made with the detected language again
FallbackSource_Detected(detected_lang) == detected_lang

\* line 136: the source of the second translation call
FallbackSource(detected_lang) == "auto"

(***************************************************************************)
(* State                                                                   *)
(***************************************************************************)
VARIABLES
    inFile,     \* record_videos/record.wav
    outFile,    \* speaking_video/output.mp3
    outLast,    \* history: the request that last wrote or removed output.mp3
    pa,         \* per thread: the process_audio request it is serving
    ga,         \* per thread: the get_audio request it is serving
    accepted    \* number of requests accepted so far

vars == <<inFile, outFile, outLast, pa, ga, accepted>>

(***************************************************************************)
(* History tags name a request by the thread that is serving it; "past"    *)
(* names the requests that are over, "none" no request.                    *)
(***************************************************************************)
Retired(tag, t) == IF tag = t THEN "past" ELSE tag

NoInput == [exists |-> FALSE, rec |-> NoRecording, by |-> "none"]
NoAudio == [text |-> << >>, voice |-> "", complete |-> FALSE]
NoOutput == [exists |-> FALSE, audio |-> NoAudio]

\* what edge-tts writes for (text, voice)
Synthesized(text, voice) == [text |-> text, voice |-> voice, complete |-> TRUE]
\* an output file that synthesis opened and did not finish
Truncated == [text |-> << >>, voice |-> "", complete |-> FALSE]

\* pc, the locals of process_audio and the response; history: upload (the
\* recording of this request), stored, sttFrom (whose upload was
\* transcribed), sttCalls, trCalls and ttsCalls (the engine calls made)
IdlePa ==
    [pc |-> "idle", has_audio |-> FALSE, target_lang |-> "", text |-> << >>,
     detected_lang |-> "", translated_text |-> << >>,
     status |-> 0, json |-> FALSE, error |-> "",
     upload |-> NoRecording, stored |-> FALSE, sttFrom |-> "none",
     sttCalls |-> 0, trCalls |-> << >>, ttsCalls |-> << >>]

NoHandle == [open |-> FALSE, linked |-> FALSE, audio |-> NoAudio]

\* pc, the open file of send_file and the response; history: seen (the last
\* request to change output.mp3 when this one checked it), delivered,
\* rewritten (output.mp3 was written after this response was closed),
\* cleanupError
IdleGa ==
    [pc |-> "idle", status |-> 0, json |-> FALSE, handle |-> NoHandle,
     seen |-> "none", delivered |-> NoAudio, rewritten |-> FALSE,
     cleanupError |-> FALSE]

Idle(t) == pa[t].pc = "idle" /\ ga[t].pc = "idle"

\* the server hands a request to its first idle thread
Free(t) == Idle(t) /\ (t = "t2" => ~Idle("t1"))

\* what the two folders can hold when the server starts: nothing, or the
\* files an earlier run of the server left there
LeftInputs == { NoInput,
                [exists |-> TRUE, by |-> "past",
                 rec |-> [segments |-> << <<" ">>, <<" ", " ">> >>,
                          language |-> "uk"]] }
LeftOutputs == { NoOutput,
                 [exists |-> TRUE,
                  audio |-> Synthesized(<<"o", "l", "d">>, "hi-IN-SwaraNeural")] }

Init ==
    /\ inFile \in LeftInputs
    /\ outFile \in LeftOutputs
    /\ outLast = "none"
    /\ pa = [t \in Threads |-> IdlePa]
    /\ ga = [t \in Threads |-> IdleGa]
    /\ accepted = 0

\* lines 161-162: jsonify({"error": str(e)}), 500
Failed(r, e) ==
    [r EXCEPT !.pc = "done", !.status = 500, !.json = TRUE, !.error = e]

\* lines 110 and 123: jsonify({"error": ...}), 400
Rejected(r, e) ==
    [r EXCEPT !.pc = "done", !.status = 400, !.json = TRUE, !.error = e]

\* lines 151-159: jsonify of the result, 200
Succeeded(r) == [r EXCEPT !.pc = "done", !.status = 200, !.json = TRUE]

(***************************************************************************)
(* process_audio                                                           *)
(***************************************************************************)
\* lines 108-118: reject a request without audio, else read the form and
\* store the upload
PaAccept(t) ==
    /\ Free(t)
    /\ accepted < MaxRequests
    /\ accepted' = accepted + 1
    /\ \E req \in PaRequests :
         IF AudioMissing(req)
         THEN /\ pa' = [pa EXCEPT ![t] =
                          Rejected(IdlePa, "No audio file provided.")]
              /\ inFile' = inFile
         ELSE /\ pa' = [pa EXCEPT ![t] =
                          [IdlePa EXCEPT !.pc = "transcribe",
                                         !.has_audio = req.has_audio,
                                         !.target_lang = FormTarget(req.target_field),
                                         !.upload = req.audio,
                                         !.stored = TRUE]]
              /\ inFile' = [exists |-> TRUE, rec |-> req.audio, by |-> t]
    /\ UNCHANGED <<outFile, outLast, ga>>

\* transcribing the upload of the request itself and not the stored file
TranscribedRecording_Own(t) == pa[t].upload

\* what model.transcribe(input_path) reads
TranscribedRecording(t) == inFile.rec

\* lines 121-130: transcribe, reject silence, take the skip decision
PaTranscribe(t) ==
    /\ pa[t].pc = "transcribe"
    /\ \/ \* Whisper cannot open or decode the file
          /\ pa' = [pa EXCEPT ![t] =
                      [Failed(@, "transcribe") EXCEPT !.sttCalls = @ + 1]]
       \/ /\ inFile.exists
          /\ LET r == SpeechToText(TranscribedRecording(t))
                 q == [pa[t] EXCEPT !.text = r.text,
                                    !.detected_lang = r.detected_lang,
                                    !.sttFrom = inFile.by,
                                    !.sttCalls = @ + 1]
             IN  pa' = [pa EXCEPT ![t] =
                   IF NoSpeech(r.text)
                   THEN Rejected(q, "No speech detected.")
                   ELSE IF SkipTranslation(r.detected_lang, q.target_lang)
                   THEN [q EXCEPT !.pc = "synthesize",
                                  !.translated_text = r.text]
                   ELSE [q EXCEPT !.pc = "translate"]]
    /\ UNCHANGED <<inFile, outFile, outLast, ga, accepted>>

\* one call GoogleTranslator(source, target).translate(text), with its outcome
TranslateCall(source, target, text, ok, result, error) ==
    [source |-> source, target |-> target, text |-> text,
     ok |-> ok, result |-> result, error |-> error]

\* line 133: translate with the detected language as the source
PaTranslate(t) ==
    /\ pa[t].pc = "translate"
    /\ \/ \E res \in TranslatedTexts :
            pa' = [pa EXCEPT ![t] =
                     [@ EXCEPT !.pc = "synthesize",
                               !.translated_text = res,
                               !.trCalls = Append(@,
                                   TranslateCall(pa[t].detected_lang,
                                       pa[t].target_lang, pa[t].text,
                                       TRUE, res, ""))]]
       \/ \E e \in TranslateErrors :
            pa' = [pa EXCEPT ![t] =
                     [@ EXCEPT !.pc = "retry",
                               !.trCalls = Append(@,
                                   TranslateCall(pa[t].detected_lang,
                                       pa[t].target_lang, pa[t].text,
                                       FALSE, << >>, e))]]
    /\ UNCHANGED <<inFile, outFile, outLast, ga, accepted>>

\* a retry whose failure also removes output.mp3
PaRetry_ClearsOutput(t) ==
    /\ pa[t].pc = "retry"
    /\ \/ /\ \E res \in TranslatedTexts :
               pa' = [pa EXCEPT ![t] =
                        [@ EXCEPT !.pc = "synthesize",
                                  !.translated_text = res,
                                  !.trCalls = Append(@,
                                      TranslateCall(FallbackSource(pa[t].detected_lang),
                                          pa[t].target_lang, pa[t].text,
                                          TRUE, res, ""))]]
          /\ UNCHANGED outFile
       \/ /\ \E e \in TranslateErrors :
               pa' = [pa EXCEPT ![t] =
                        [Failed(@, "translate") EXCEPT
                                  !.trCalls = Append(@,
                                      TranslateCall(FallbackSource(pa[t].detected_lang),
                                          pa[t].target_lang, pa[t].text,
                                          FALSE, << >>, e))]]
          /\ outFile' = [exists |-> FALSE, audio |-> outFile.audio]
    /\ UNCHANGED <<inFile, outLast, ga, accepted>>

\* a retry that is repeated as long as the call fails
PaRetry_Again(t) ==
    /\ pa[t].pc = "retry"
    /\ \/ \E res \in TranslatedTexts :
            pa' = [pa EXCEPT ![t] =
                     [@ EXCEPT !.pc = "synthesize",
                               !.translated_text = res,
                               !.trCalls = Append(@,
                                   TranslateCall(FallbackSource(pa[t].detected_lang),
                                       pa[t].target_lang, pa[t].text,
                                       TRUE, res, ""))]]
       \/ \E e \in TranslateErrors :
            pa' = [pa EXCEPT ![t] =
                     [@ EXCEPT !.trCalls = Append(@,
                                   TranslateCall(FallbackSource(pa[t].detected_lang),
                                       pa[t].target_lang, pa[t].text,
                                       FALSE, << >>, e))]]
    /\ UNCHANGED <<inFile, outFile, outLast, ga, accepted>>

\* lines 134-136: any exception of the first call leads to one call with "auto"
PaRetry(t) ==
    /\ pa[t].pc = "retry"
    /\ \/ \E res \in TranslatedTexts :
            pa' = [pa EXCEPT ![t] =
                     [@ EXCEPT !.pc = "synthesize",
                               !.translated_text = res,
                               !.trCalls = Append(@,
                                   TranslateCall(FallbackSource(pa[t].detected_lang),
                                       pa[t].target_lang, pa[t].text,
                                       TRUE, res, ""))]]
       \/ \E e \in TranslateErrors :
            pa' = [pa EXCEPT ![t] =
                     [Failed(@, "translate") EXCEPT
                               !.trCalls = Append(@,
                                   TranslateCall(FallbackSource(pa[t].detected_lang),
                                       pa[t].target_lang, pa[t].text,
                                       FALSE, << >>, e))]]
    /\ UNCHANGED <<inFile, outFile, outLast, ga, accepted>>

\* what a write into output.mp3 does to a get_audio request: an open handle
\* on the file reads the new content, a closed response has been followed by
\* a write
AfterWrite(g, audio) ==
    IF g.handle.open /\ g.handle.linked
    THEN [g EXCEPT !.handle.audio = audio]
    ELSE IF g.pc = "done" /\ g.status = 200
    THEN [g EXCEPT !.rewritten = TRUE]
    ELSE g

\* os.remove(output.mp3) unlinks the file from every open handle
Unlinked(g) == [g EXCEPT !.handle.linked = FALSE]

\* one call text_to_audio(text, voice, output_path), with its outcome
SynthesisCall(text, voice, ok) == [text |-> text, voice |-> voice, ok |-> ok]

\* synthesizing the transcript and not its translation
SynthesisText_Original(r) == r.text

\* line 144: the text handed to text_to_audio
SynthesisText(r) == r.translated_text

\* lines 139-145: pick the voice and run edge-tts to completion
PaSynthesize(t) ==
    /\ pa[t].pc = "synthesize"
    /\ LET selected_voice == SelectedVoice(pa[t].target_lang)
           text == SynthesisText(pa[t])
       IN  \/ \* tts.save wrote the whole audio
              /\ outFile' = [exists |-> TRUE,
                             audio |-> Synthesized(text, selected_voice)]
              /\ outLast' = t
              /\ ga' = [g \in Threads |->
                          AfterWrite(ga[g], Synthesized(text, selected_voice))]
              /\ pa' = [pa EXCEPT ![t] =
                          [@ EXCEPT !.pc = "exists",
                                    !.ttsCalls = Append(@,
                                        SynthesisCall(text, selected_voice, TRUE))]]
           \/ \* edge-tts raised before it opened the output file
              /\ pa' = [pa EXCEPT ![t] =
                          [Failed(@, "synthesize") EXCEPT
                                    !.ttsCalls = Append(@,
                                        SynthesisCall(text, selected_voice, FALSE))]]
              /\ UNCHANGED <<outFile, outLast, ga>>
           \/ \* edge-tts raised after open(output_path, "wb")
              /\ outFile' = [exists |-> TRUE, audio |-> Truncated]
              /\ outLast' = t
              /\ ga' = [g \in Threads |-> AfterWrite(ga[g], Truncated)]
              /\ pa' = [pa EXCEPT ![t] =
                          [Failed(@, "synthesize") EXCEPT
                                    !.ttsCalls = Append(@,
                                        SynthesisCall(text, selected_voice, FALSE))]]
    /\ UNCHANGED <<inFile, accepted>>

\* line 148: os.path.exists(input_path); when false, lines 151-159
PaExists(t) ==
    /\ pa[t].pc = "exists"
    /\ pa' = [pa EXCEPT ![t] =
                IF inFile.exists
                THEN [@ EXCEPT !.pc = "remove"]
                ELSE Succeeded(@)]
    /\ UNCHANGED <<inFile, outFile, outLast, ga, accepted>>

\* line 149: os.remove(input_path), then lines 151-159
PaRemove(t) ==
    /\ pa[t].pc = "remove"
    /\ IF inFile.exists
       THEN /\ inFile' = NoInput
            /\ pa' = [pa EXCEPT ![t] = Succeeded(@)]
       ELSE \* FileNotFoundError, caught at line 161
            /\ inFile' = inFile
            /\ pa' = [pa EXCEPT ![t] = Failed(@, "remove")]
    /\ UNCHANGED <<outFile, outLast, ga, accepted>>

\* the response has been sent; the thread takes the next request
PaFinish(t) ==
    /\ pa[t].pc = "done"
    /\ pa' = [u \in Threads |->
                IF u = t THEN IdlePa
                ELSE [pa[u] EXCEPT !.sttFrom = Retired(@, t)]]
    /\ ga' = [g \in Threads |-> [ga[g] EXCEPT !.seen = Retired(@, t)]]
    /\ inFile' = [inFile EXCEPT !.by = Retired(@, t)]
    /\ outLast' = Retired(outLast, t)
    /\ UNCHANGED <<outFile, accepted>>

\* the JSON body of a 200 response (lines 151-159)
ResponseBody(r) ==
    [detected_lang |-> r.detected_lang,
     detected_lang_name |-> LanguageName(r.detected_lang),
     target_lang_name |-> LanguageName(r.target_lang),
     original_text |-> r.text,
     translated_text |-> r.translated_text,
     audio_url |-> "/get_audio"]

(***************************************************************************)
(* get_audio                                                               *)
(***************************************************************************)
\* lines 170-172: os.path.exists(output_path)
GaAccept(t) ==
    /\ Free(t)
    /\ accepted < MaxRequests
    /\ accepted' = accepted + 1
    /\ ga' = [ga EXCEPT ![t] =
                IF outFile.exists
                THEN [IdleGa EXCEPT !.pc = "send", !.seen = outLast]
                ELSE [IdleGa EXCEPT !.pc = "done", !.status = 404,
                                    !.json = TRUE, !.seen = outLast]]
    /\ UNCHANGED <<inFile, outFile, outLast, pa>>

\* lines 174-181: send_file opens the file and the response is returned;
\* when the file is gone, FileNotFoundError leaves the handler uncaught
GaSend(t) ==
    /\ ga[t].pc = "send"
    /\ ga' = [ga EXCEPT ![t] =
                IF outFile.exists
                THEN [@ EXCEPT !.pc = "stream", !.status = 200,
                               !.handle = [open |-> TRUE, linked |-> TRUE,
                                           audio |-> outFile.audio]]
                ELSE [@ EXCEPT !.pc = "done", !.status = 500, !.json = FALSE]]
    /\ UNCHANGED <<inFile, outFile, outLast, pa, accepted>>

\* the WSGI server streams the open file to the caller
GaStream(t) ==
    /\ ga[t].pc = "stream"
    /\ ga' = [ga EXCEPT ![t] =
                [@ EXCEPT !.pc = "close", !.delivered = ga[t].handle.audio,
                          !.handle = NoHandle]]
    /\ UNCHANGED <<inFile, outFile, outLast, pa, accepted>>

\* a response closed without its cleanup
GaClose_NoCleanup(t) ==
    /\ ga[t].pc = "close"
    /\ ga' = [ga EXCEPT ![t] = [@ EXCEPT !.pc = "done"]]
    /\ UNCHANGED <<inFile, outFile, outLast, pa, accepted>>

\* line 178, in cleanup() at response close: os.path.exists(output_path)
GaClose(t) ==
    /\ ga[t].pc = "close"
    /\ ga' = [ga EXCEPT ![t] =
                IF outFile.exists
                THEN [@ EXCEPT !.pc = "remove"]
                ELSE [@ EXCEPT !.pc = "done"]]
    /\ UNCHANGED <<inFile, outFile, outLast, pa, accepted>>

\* line 179, in cleanup(): os.remove(output_path)
GaRemove(t) ==
    /\ ga[t].pc = "remove"
    /\ IF outFile.exists
       THEN /\ outFile' = NoOutput
            /\ outLast' = t
            /\ ga' = [g \in Threads |->
                        IF g = t THEN [ga[t] EXCEPT !.pc = "done"]
                        ELSE Unlinked(ga[g])]
       ELSE \* FileNotFoundError inside the close callback
            /\ ga' = [ga EXCEPT ![t] =
                        [@ EXCEPT !.pc = "done", !.cleanupError = TRUE]]
            /\ UNCHANGED <<outFile, outLast>>
    /\ UNCHANGED <<inFile, pa, accepted>>

\* the response is closed; the thread takes the next request
GaFinish(t) ==
    /\ ga[t].pc = "done"
    /\ ga' = [g \in Threads |->
                IF g = t THEN IdleGa
                ELSE [ga[g] EXCEPT !.seen = Retired(@, t)]]
    /\ outLast' = Retired(outLast, t)
    /\ UNCHANGED <<inFile, outFile, pa, accepted>>

(***************************************************************************)
(* Specification                                                           *)
(***************************************************************************)
Next ==
    \E t \in Threads :
        \/ PaAccept(t)
        \/ PaTranscribe(t)
        \/ PaTranslate(t)
        \/ PaRetry(t)
        \/ PaSynthesize(t)
        \/ PaExists(t)
        \/ PaRemove(t)
        \/ PaFinish(t)
        \/ GaAccept(t)
        \/ GaSend(t)
        \/ GaStream(t)
        \/ GaClose(t)
        \/ GaRemove(t)
        \/ GaFinish(t)

Spec == Init /\ [][Next]_vars

(***************************************************************************)
(* Properties                                                              *)
(***************************************************************************)
\* a process_audio request returns its response in this step
Returns(t) == pa[t].pc # "done" /\ pa'[t].pc = "done"

\* the audio a request's 200 response is about
OwnAudio(r) == Synthesized(r.translated_text, SelectedVoice(r.target_lang))

\* C1: when a process_audio request that stored its upload returns its
\* response (200, 400 or 500), record.wav does not exist.
C1_InputGoneAtResponse ==
    [][\A t \in Threads :
         Returns(t) /\ pa'[t].stored => ~inFile'.exists]_vars

\* C2: a request whose transcript is non-empty and whose detected language
\* is the target language makes no translation call, and its translated_text
\* is its original_text.
C2_SkipIsIdentity ==
    \A t \in Threads :
        pa[t].text # << >> /\ pa[t].detected_lang = pa[t].target_lang
        => /\ pa[t].trCalls = << >>
           /\ pa[t].translated_text = pa[t].text
           /\ ResponseBody(pa[t]).translated_text
                = ResponseBody(pa[t]).original_text

C2_Witness ==
    \E t \in Threads :
        /\ pa[t].pc = "done" /\ pa[t].status = 200
        /\ pa[t].text # << >>
        /\ pa[t].detected_lang = pa[t].target_lang

\* C3: a failed first translation call (source = detected language) is
\* followed by exactly one call with source "auto" and the same target and
\* text; when that call succeeds its result is the translated_text, when it
\* fails the request ends with an error response, without a third
\* translation call and without a synthesis call.
C3_SingleAutoRetry ==
    \A t \in Threads :
        LET r == pa[t]
            c == r.trCalls
        IN  /\ Len(c) <= 2
            /\ Len(c) >= 1
               => /\ c[1].source = r.detected_lang
                  /\ c[1].target = r.target_lang
                  /\ c[1].text = r.text
                  /\ r.detected_lang # r.target_lang
            /\ Len(c) >= 1 /\ c[1].ok => Len(c) = 1
            /\ Len(c) >= 1 /\ ~c[1].ok
               => \/ r.pc = "retry" /\ Len(c) = 1
                  \/ /\ Len(c) = 2
                     /\ c[2].source = "auto"
                     /\ c[2].target = c[1].target
                     /\ c[2].text = c[1].text
            /\ Len(c) = 2 /\ c[2].ok
               => /\ r.translated_text = c[2].result
                  /\ ResponseBody(r).translated_text = c[2].result
            /\ Len(c) = 2 /\ ~c[2].ok
               => /\ r.pc = "done" /\ r.status = 500 /\ r.json
                  /\ r.ttsCalls = << >>

C3_Witness ==
    /\ pa["t1"].pc = "done" /\ pa["t1"].status = 200
    /\ Len(pa["t1"].trCalls) = 2
    /\ pa["t1"].translated_text = <<"o", "k">>
    /\ pa["t2"].pc = "done" /\ pa["t2"].status = 500
    /\ Len(pa["t2"].trCalls) = 2

\* C4: once a get_audio response with status 200 is closed, output.mp3 does
\* not exist until a process_audio writes it again, and a get_audio received
\* meanwhile answers 404; get_audio answers 404 exactly when output.mp3 does
\* not exist at its check.
Delivered(g) == ga[g].pc = "done" /\ ga[g].status = 200 /\ ~ga[g].rewritten

C4_GoneAfterDelivery ==
    /\ [](\A g \in Threads : Delivered(g) => ~outFile.exists)
    /\ [][\A u \in Threads :
            ga[u].pc = "idle" /\ ga'[u].pc # "idle"
            => /\ (ga'[u].status = 404) <=> ~outFile.exists
               /\ (\E g \in Threads : Delivered(g)) => ga'[u].status = 404]_vars

C4_Witness ==
    /\ Delivered("t1")
    /\ ga["t1"].delivered.complete
    /\ ga["t2"].pc = "done" /\ ga["t2"].status = 404
    /\ ga["t2"].seen = "t1"

\* C5: when the transcript is empty (also when Whisper heard only
\* whitespace), the response is 400 "no speech" and neither the translation
\* nor the synthesis engine is called.
C5_NoSpeechRejected ==
    \A t \in Threads :
        pa[t].sttFrom # "none" /\ pa[t].text = << >>
        => /\ pa[t].pc = "done" /\ pa[t].status = 400 /\ pa[t].json
           /\ pa[t].error = "No speech detected."
           /\ pa[t].trCalls = << >>
           /\ pa[t].ttsCalls = << >>

C5_Witness ==
    \E t \in Threads :
        /\ pa[t].pc = "done" /\ pa[t].status = 400
        /\ pa[t].error = "No speech detected."
        /\ pa[t].sttFrom = t
        /\ pa[t].upload.segments # << >>

\* C6: a request without an audio part is answered 400 "no audio file
\* provided"; it writes nothing into record.wav and calls no engine.
C6_NoAudioRejected ==
    \A t \in Threads :
        pa[t].pc # "idle" /\ ~pa[t].has_audio
        => /\ pa[t].pc = "done" /\ pa[t].status = 400 /\ pa[t].json
           /\ pa[t].error = "No audio file provided."
           /\ ~pa[t].stored
           /\ inFile.by # t
           /\ pa[t].sttFrom = "none"
           /\ pa[t].trCalls = << >>
           /\ pa[t].ttsCalls = << >>

C6_Witness ==
    \E t \in Threads :
        /\ pa[t].pc = "done"
        /\ pa[t].error = "No audio file provided."
        /\ inFile.exists

\* C7: every failure of process_audio and of get_audio reaches the caller
\* as a JSON error with its status code: 400 for no audio and no speech, 404
\* for a missing output.mp3, 500 for any other failure; none leaves the
\* handler uncaught.
C7_FailuresAreJsonErrors ==
    \A t \in Threads :
        /\ pa[t].pc = "done" /\ pa[t].status # 200
           => /\ pa[t].json
              /\ \/ /\ pa[t].status = 400
                    /\ pa[t].error \in {"No audio file provided.",
                                        "No speech detected."}
                 \/ /\ pa[t].status = 500
                    /\ pa[t].error \in {"transcribe", "translate",
                                        "synthesize", "remove"}
        /\ ga[t].pc = "done" /\ ga[t].status # 200
           => ga[t].json /\ ga[t].status = 404

\* C8, as claimed: whenever a request returns 200, output.mp3 exists and
\* holds the audio synthesized from its translated_text with the voice of
\* its target language.
C8_OutputPresentAtResponse ==
    [][\A t \in Threads :
         Returns(t) /\ pa'[t].status = 200
         => outFile'.exists /\ outFile'.audio = OwnAudio(pa'[t])]_vars

\* C8, amended: a request that returns 200 has made exactly one synthesis
\* call, with its translated_text and the voice of its target language, and
\* the call succeeded; as long as no other request has written or removed
\* output.mp3 since, the file exists and holds that audio, and a get_audio
\* that found it so answers 200 and delivers exactly that audio.
C8_SynthesisBeforeResponse ==
    \A t \in Threads :
        LET r == pa[t] IN
        r.pc = "done" /\ r.status = 200
        => /\ r.ttsCalls = << SynthesisCall(r.translated_text,
                                  SelectedVoice(r.target_lang), TRUE) >>
           /\ outLast = t
              => /\ outFile.exists
                 /\ outFile.audio = OwnAudio(r)
                 /\ \A g \in Threads :
                      ga[g].pc # "idle" /\ ga[g].seen = t
                      => /\ ga[g].status \in {0, 200}
                         /\ ga[g].pc = "close"
                            => /\ ga[g].status = 200
                               /\ ga[g].delivered = OwnAudio(r)

C8_Witness ==
    \E t, g \in Threads :
        /\ pa[t].pc = "done" /\ pa[t].status = 200
        /\ pa[t].translated_text # pa[t].text
        /\ outLast = t
        /\ ga[g].pc = "close" /\ ga[g].seen = t
        /\ ga[g].delivered = OwnAudio(pa[t])

\* C9: record.wav is one slot for all requests: the transcript a request
\* reports is that of the upload stored last when it transcribed, which can
\* be the upload of an overlapping request.
C9_TranscriptOfSlot ==
    \A t \in Threads :
        pa[t].sttFrom \in Threads
        => /\ pa[t].text = SpeechToText(pa[pa[t].sttFrom].upload).text
           /\ pa[t].detected_lang
                = SpeechToText(pa[pa[t].sttFrom].upload).detected_lang

C9_Witness ==
    \E t \in Threads :
        /\ pa[t].pc = "done" /\ pa[t].status = 200
        /\ pa[t].sttFrom \in Threads \ {t}
        /\ ResponseBody(pa[t]).original_text
             # SpeechToText(pa[t].upload).text
        /\ ResponseBody(pa[t]).original_text
             = SpeechToText(pa[pa[t].sttFrom].upload).text

\* C10: a request deletes record.wav before it calls the translation or the
\* synthesis engine: its upload is not in the slot any more when one of them
\* is about to be called.
C10_InputDeletedBeforeEngines ==
    \A t \in Threads :
        pa[t].pc \in {"translate", "retry", "synthesize"}
        => ~(inFile.exists /\ inFile.by = t)

\* the voices of the catalog, and the default voice
KnownVoices == {VOICE_MAP[c] : c \in DOMAIN VOICE_MAP} \cup {DefaultVoice}

\* C11: every synthesis call is made with a non-empty text and with a voice
\* that is the catalog voice of the target language or the default voice, on
\* the skip path and on the translate path.
C11_SynthesisInputValid ==
    \A t \in Threads :
        \A i \in 1..Len(pa[t].ttsCalls) :
            /\ pa[t].ttsCalls[i].text # << >>
            /\ pa[t].ttsCalls[i].voice \in KnownVoices
            /\ pa[t].ttsCalls[i].voice = SelectedVoice(pa[t].target_lang)

\* C12: the call with source "auto" is made only after a first call that
\* failed because the source language was not recognized; a first call that
\* failed in another way ends the request, with no second call.
C12_RetryOnlyForUnknownSource ==
    \A t \in Threads :
        LET c == pa[t].trCalls IN
        Len(c) >= 1 /\ ~c[1].ok /\ c[1].error # "LanguageNotSupported"
        => /\ Len(c) = 1
           /\ pa[t].pc = "done" /\ pa[t].status = 500

\* C13: releasing a file that is already gone is a no-op and never an
\* error, in the cleanup of get_audio and at the end of process_audio, also
\* when two releases of the same path interleave.
C13_ReleaseNeverFails ==
    \A t \in Threads :
        /\ ~ga[t].cleanupError
        /\ ~(pa[t].pc = "done" /\ pa[t].error = "remove")

\* C14: within a request the stages run in the order store, transcribe,
\* skip or translate, synthesize, respond, each after the one before it
\* returned with success; transcription and synthesis are called at most
\* once and translation at most twice, and the text synthesized is the
\* translated_text of the response.
C14_StagesInOrder ==
    \A t \in Threads :
        LET r == pa[t]
            c == r.trCalls
        IN  /\ r.sttCalls <= 1 /\ Len(c) <= 2 /\ Len(r.ttsCalls) <= 1
            /\ r.pc = "transcribe" <=> (r.stored /\ r.sttCalls = 0)
            /\ r.sttCalls = 1 => r.stored
            /\ c # << >>
               => /\ r.sttCalls = 1 /\ r.sttFrom # "none" /\ r.text # << >>
                  /\ r.detected_lang # r.target_lang
            /\ r.pc \in {"translate", "retry"} => r.ttsCalls = << >>
            /\ r.pc = "translate" => c = << >>
            /\ r.ttsCalls # << >>
               => /\ r.sttCalls = 1 /\ r.sttFrom # "none" /\ r.text # << >>
                  /\ \/ c = << >> /\ r.detected_lang = r.target_lang
                     \/ c # << >> /\ c[Len(c)].ok
                                  /\ c[Len(c)].result = r.translated_text
                  /\ r.ttsCalls[1].text = r.translated_text
            /\ r.pc \in {"exists", "remove"} \/ r.status = 200
               => /\ Len(r.ttsCalls) = 1 /\ r.ttsCalls[1].ok
                  /\ r.ttsCalls[1].text = ResponseBody(r).translated_text

C14_Witness ==
    \E t \in Threads :
        /\ pa[t].pc = "done" /\ pa[t].status = 200
        /\ pa[t].sttCalls = 1
        /\ Len(pa[t].trCalls) = 2
        /\ Len(pa[t].ttsCalls) = 1
        /\ pa[t].ttsCalls[1].text = <<"o", "k">>

\* C15: in a 200 response detected_lang is the language code transcription
\* returned for the recording it read; detected_lang_name and
\* target_lang_name are the catalog's names of the detected and the target
\* code, or the code in upper case when the catalog has none, and are not
\* empty; the voice of the synthesis call is the catalog's voice of the same
\* target code, or the default voice when the catalog has none.
C15_NamesAndVoice ==
    \A t \in Threads :
        pa[t].pc = "done" /\ pa[t].status = 200
        => LET r == pa[t]
               b == ResponseBody(r)
           IN  /\ r.sttFrom \in Threads
                  => b.detected_lang = pa[r.sttFrom].upload.language
               /\ b.detected_lang \in {"en", "uk"}
               /\ b.detected_lang = "en" => b.detected_lang_name = "English"
               /\ b.detected_lang = "uk" => b.detected_lang_name = "UK"
               /\ r.target_lang \in {"en", "hi", "uk"}
               /\ r.target_lang = "en" => b.target_lang_name = "English"
               /\ r.target_lang = "hi" => b.target_lang_name = "Hindi"
               /\ r.target_lang = "uk" => b.target_lang_name = "UK"
               /\ b.detected_lang_name # "" /\ b.target_lang_name # ""
               /\ Len(r.ttsCalls) = 1
               /\ r.target_lang = "en"
                  => r.ttsCalls[1].voice = "en-US-AriaNeural"
               /\ r.target_lang = "hi"
                  => r.ttsCalls[1].voice = "hi-IN-SwaraNeural"
               /\ r.target_lang = "uk"
                  => r.ttsCalls[1].voice = DefaultVoice

C15_Witness ==
    \E t \in Threads :
        /\ pa[t].pc = "done" /\ pa[t].status = 200
        /\ pa[t].target_lang = "uk"
        /\ ResponseBody(pa[t]).detected_lang = "en"
        /\ ResponseBody(pa[t]).detected_lang_name = "English"
        /\ ResponseBody(pa[t]).target_lang_name = "UK"
        /\ pa[t].ttsCalls[1].voice = DefaultVoice

\* C16: a process_audio request that has not reached synthesis (it was
\* rejected for a missing upload or an empty transcript, or transcription or
\* translation failed) has not written output.mp3, and none of its steps
\* before synthesis and none of its steps after its response creates,
\* changes or removes output.mp3: a get_audio after it is served what was in
\* the file before.
C16_FailedRequestKeepsOutput ==
    /\ [](\A t \in Threads :
            pa[t].pc # "idle" /\ pa[t].ttsCalls = << >> => outLast # t)
    /\ [][\A t \in Threads :
            pa'[t] # pa[t] /\ pa[t].pc # "synthesize"
            => outFile' = outFile]_vars

C16_Witness ==
    \E t, g \in Threads :
        /\ pa[t].pc = "done" /\ pa[t].status = 500
        /\ pa[t].error = "translate" /\ pa[t].ttsCalls = << >>
        /\ ga[g].pc = "close" /\ ga[g].status = 200
        /\ ga[g].delivered = Synthesized(<<"o", "l", "d">>, "hi-IN-SwaraNeural")
        /\ outFile.exists /\ outFile.audio = ga[g].delivered

\* C17: when the cleanup of a get_audio response removes output.mp3, the
\* audio in the file is the audio that response delivered; and audio that a
\* process_audio request with a 200 response wrote there has been delivered
\* by some get_audio response before it is removed.
C17_CleanupRemovesOnlyDelivered ==
    [][\A g \in Threads :
         /\ ga[g].pc = "remove" /\ ga'[g].pc # "remove"
         /\ outFile.exists /\ ~outFile'.exists
         => /\ ga[g].delivered = outFile.audio
            /\ \A t \in Threads :
                 /\ outLast = t
                 /\ pa[t].pc = "done" /\ pa[t].status = 200
                 /\ outFile.audio = OwnAudio(pa[t])
                 => \E h \in Threads :
                      /\ ga[h].pc \in {"close", "remove", "done"}
                      /\ ga[h].delivered = outFile.audio]_vars

====
